---- MODULE Spec2Model ----
(***************************************************************************)
(* A model of wsds/datasets.py: the SimpleDataset wrapper, its pipeline    *)
(* helpers and the sample key normaliser fix_dots.                         *)
(*                                                                         *)
(* Python values are encoded as follows.                                   *)
(*   - a str key is the sequence of its characters;                        *)
(*   - a dict is the sequence of its items [k, v] in insertion order;      *)
(*   - None for force_size is NoCap, None for cache_dir is NoDir;          *)
(*   - an exception is the name of its class, "none" when nothing raised;  *)
(*   - a generator is a record with the position of its frame.             *)
(***************************************************************************)
EXTENDS Integers, Sequences, FiniteSets, TLC

\* ------------------------------------------------------------------ bounds
MaxK == 5            \* largest force_size tried
MaxM == 3            \* largest number of samples the source yields per pass
MaxIters == 2        \* calls of __iter__ per dataset
MaxRuns == 7         \* cap on run_pipeline invocations of one generator
MaxCloses == 2       \* calls of close per dataset
MaxTransArg == 2     \* longest transformations list given to __init__
MaxKeyLen == 2       \* longest sample key given to fix_dots
MaxKeys == 2         \* most items in a sample given to fix_dots
MaxAccesses == 102   \* cap on the cache access counter
MaxChecks == 2       \* calls of check_cache_misses per dataset
MaxApply == 2        \* applications of fix_dots to one sample
MaxOpsK == 2         \* largest force_size where every method is called
MaxOpsM == 1         \* largest pass where every method is called
MaxAdds == 1         \* calls of add_transform per dataset
MaxSize == 0         \* largest argument of set_size
MaxDatasets == 2     \* datasets built over the same list objects

\* ------------------------------------------------------- program constants
MinAccesses == 100   \* line 173: accesses > 100
MissNum == 3         \* line 173: misses / accesses > 0.3, as 3 / 10
MissDen == 10

\* --------------------------------------------------------------- encodings
NoCap == -1
NoDir == "None"
NoShards == [type |-> "None", json |-> FALSE]

\* ------------------------------------------------------- module functions

\* a pipeline stage: its name, the shards it was built from (source only),
\* and whether the object has a set_epoch / close attribute
Stage(name, shards, se, cl) ==
    [name |-> name, shards |-> shards, set_epoch |-> se, close |-> cl]

\* callable(t) of line 78
callable(t) == t \in {"t1", "t2"}

\* interpret_transformations: [err, result]
interpret_transformations_unchecked(transformations) ==
    [err |-> "none",
     result |-> IF transformations.isList THEN transformations.items
                ELSE << transformations.items[1] >>]

interpret_transformations(transformations) ==
    LET ts == IF transformations.isList THEN transformations.items
              ELSE << transformations.items[1] >>
    IN IF \E i \in 1..Len(ts) : ~callable(ts[i])
       THEN [err |-> "AssertionError", result |-> <<>>]
       ELSE [err |-> "none", result |-> ts]

StartsWith(k, p) == Len(k) >= Len(p) /\ SubSeq(k, 1, Len(p)) = p

HasKey(d, k) == \E i \in 1..Len(d) : d[i].k = k

GetItem(d, k) == d[CHOOSE i \in 1..Len(d) : d[i].k = k].v

\* d[k] = v : an existing key keeps its place, a new key goes last
SetItem(d, k, v) ==
    IF HasKey(d, k)
    THEN [i \in 1..Len(d) |-> IF d[i].k = k THEN [k |-> k, v |-> v] ELSE d[i]]
    ELSE Append(d, [k |-> k, v |-> v])

DelItem(d, k) == SelectSeq(d, LAMBDA e : e.k # k)

Keys(d) == [i \in 1..Len(d) |-> d[i].k]

\* the test of line 86
SkipsKeyNoDot(k) == StartsWith(k, <<"_", "_">>)

SkipsKeySingle(k) == StartsWith(k, <<"_">>) \/ StartsWith(k, <<".">>)

SkipsKey(k) == StartsWith(k, <<"_", "_">>) \/ StartsWith(k, <<".">>)

RECURSIVE FixDotsLoop(_, _)
FixDotsLoop(d, ks) ==
    IF ks = <<>> THEN d
    ELSE LET k == Head(ks)
         IN IF SkipsKey(k) THEN FixDotsLoop(d, Tail(ks))
            ELSE FixDotsLoop(DelItem(SetItem(d, <<".">> \o k, GetItem(d, k)), k),
                             Tail(ks))

\* fix_dots: the loop runs over a snapshot of the keys
fix_dots(sample) == FixDotsLoop(sample, Keys(sample))

\* apply_transformations: self.transformations is always the list built by
\* interpret_transformations, so the wrapping of line 60 is never taken;
\* a callable t is modelled by the trace it leaves on the value it returns:
\* its name, and the keys of the sample it was given
Apply(t, x) == [x EXCEPT !.by = Append(@, t), !.seen = Append(@, Keys(x.d))]

RECURSIVE apply_transformations_rev(_, _)
apply_transformations_rev(ts, x) ==
    IF ts = <<>> THEN x
    ELSE Apply(Head(ts), apply_transformations_rev(Tail(ts), x))

RECURSIVE apply_transformations(_, _)
apply_transformations(ts, x) ==
    IF ts = <<>> THEN x
    ELSE apply_transformations(Tail(ts), Apply(Head(ts), x))

\* set_pipeline_epochs on the per-stage log of set_epoch calls
set_pipeline_epochs_first(p, e, log) ==
    [i \in 1..Len(p) |->
        IF i = 1 /\ p[i].set_epoch THEN Append(log[i], e) ELSE log[i]]

set_pipeline_epochs(p, e, log) ==
    [i \in 1..Len(p) |-> IF p[i].set_epoch THEN Append(log[i], e) ELSE log[i]]

\* ------------------------------------------------------------ construction

\* SimpleDataset.create_url_iterator: [err, source].  For a str the test of
\* line 129 evaluates the unbound name `shard`.
create_url_iterator_any(shards, caps) ==
    [err |-> "none",
     source |-> Stage("SimpleShardList", shards, caps.set_epoch, caps.close)]

create_url_iterator(shards, caps) ==
    IF shards.type = "str"
    THEN [err |-> "NameError", source |-> Stage("none", NoShards, FALSE, FALSE)]
    ELSE IF shards.type \in {"str", "list"}
    THEN [err |-> "none",
          source |-> Stage("SimpleShardList", shards, caps.set_epoch, caps.close)]
    ELSE [err |-> "ValueError", source |-> Stage("none", NoShards, FALSE, FALSE)]

\* SimpleDataset.init_pipeline: [err, pipeline].  split_by_worker is a
\* function and the expander and grouper are functools.partial objects:
\* none of them has a set_epoch or close attribute.
init_pipeline(a, source, caps) ==
    LET p2 == << source, Stage("split_by_worker", NoShards, FALSE, FALSE) >>
        p5 == p2 \o << Stage("StreamingOpen", NoShards, caps.set_epoch, caps.close),
                       Stage("tar_file_expander", NoShards, FALSE, FALSE),
                       Stage("group_by_keys", NoShards, FALSE, FALSE) >>
    IN IF a.cache_dir # NoDir
       THEN [err |-> "NameError", pipeline |-> p2]     \* line 144: cache_dir
       ELSE IF a.check_empty
       THEN [err |-> "NameError", pipeline |-> p5]     \* line 159: check_empty
       ELSE [err |-> "none", pipeline |-> p5]

\* SimpleDataset.__init__: the fields of self when it returns or raises
SimpleDataset_init(a, srcCaps, openCaps) ==
    LET unset == [err |-> "none", total_size |-> -1, transformations |-> <<>>,
                  pipeline |-> <<>>, epoch |-> -1, force_size |-> NoCap]
        it == interpret_transformations(a.transformations)
        cu == create_url_iterator(a.shards, srcCaps)
        ip == init_pipeline(a, cu.source, openCaps)
    IN IF it.err # "none" THEN [unset EXCEPT !.err = it.err]
       ELSE IF cu.err # "none"
       THEN [unset EXCEPT !.err = cu.err, !.transformations = it.result]
       ELSE IF ip.err # "none"
       THEN [unset EXCEPT !.err = ip.err, !.transformations = it.result,
                          !.pipeline = ip.pipeline]
       ELSE [unset EXCEPT !.transformations = it.result,
                          !.pipeline = ip.pipeline,
                          !.force_size = a.force_size]

\* ------------------------------------------------------------------- state
VARIABLES
    pc,              \* "new", "ok" (constructed) or "failed" (__init__ raised)
    err,             \* the exception the last operation raised
    lastOp,          \* the last operation called
    args,            \* self.args
    total_size, transformations, pipeline, epoch, force_size,   \* self.*
    srcLen,          \* samples the composed pipeline yields per pass
    epochLog,        \* per stage, the arguments of its set_epoch calls
    closeLog,        \* the stages whose close was called and the calls of
                     \* cache.clear (ClearEvent), in call order
    closeCalls,      \* calls of SimpleDataset.close
    iters,           \* calls of __iter__
    started,         \* generator bodies started (first next)
    gen,             \* the live generator: [pc, count, pos]
    runs,            \* run_pipeline invocations of the live generator
    pulled,          \* samples the live generator took from the pipeline
    yielded,         \* the values the live generator yielded
    cache,           \* self.cache: NoCache or its counters
    warnOnce,        \* self.check_cache_misses was replaced (line 175)
    warnLog,         \* the calls of check_cache_misses that printed the warning
    checkCalls,      \* calls of check_cache_misses
    sample,          \* the dict given to fix_dots
    fixed,           \* the dict after each application of fix_dots
    addLog,          \* the calls of add_transform: the callable, the number of
                     \* __iter__ calls and of values yielded before it
    heap,            \* the list objects, by identity
    targ,            \* per dataset, the list passed as transformations
    tref             \* per dataset, the list self.transformations refers to

dsVars == << pc, err, lastOp, args, total_size, transformations, pipeline,
             epoch, force_size, srcLen, epochLog, closeLog, closeCalls >>
genVars == << iters, started, gen, runs, pulled, yielded >>
cacheVars == << cache, warnOnce, warnLog, checkCalls >>
dotVars == << sample, fixed >>
extVars == << addLog, heap, targ, tref >>
vars == << dsVars, genVars, cacheVars, dotVars, extVars >>

\* the state of what a specification leaves alone
NoExt == addLog = <<>> /\ heap = <<>> /\ targ = <<>> /\ tref = <<>>

NoCache == [present |-> FALSE, accesses |-> 0, misses |-> 0, cleared |-> FALSE]
NoGen == [pc |-> "none", count |-> 0, pos |-> 0]
NoArgs == [shards |-> NoShards, cache_dir |-> NoDir, check_empty |-> FALSE,
           force_size |-> NoCap,
           transformations |-> [isList |-> TRUE, items |-> <<>>]]

\* ------------------------------------------------------------------ inputs
ShardsArgs == { [type |-> "str", json |-> FALSE], [type |-> "str", json |-> TRUE],
                [type |-> "list", json |-> FALSE], [type |-> "int", json |-> FALSE] }

TransItems == {"t1", "t2", "nc"}          \* two callables and a non-callable

TransArgs ==
    { [isList |-> FALSE, items |-> << t >>] : t \in TransItems }
    \cup { [isList |-> TRUE, items |-> l] :
             l \in UNION { [1..n -> TransItems] : n \in 0..MaxTransArg } }

Caps == [set_epoch : BOOLEAN, close : BOOLEAN]

\* the i-th sample of a pass of the composed pipeline, as group_by_keys
\* builds it: the reserved key "__" and one file member
RawSample(i) == << [k |-> <<"_", "_">>, v |-> i], [k |-> <<"a">>, v |-> i + 10] >>

\* ----------------------------------------------------------------- actions
Init ==
    /\ pc = "new" /\ err = "none" /\ lastOp = "init" /\ args = NoArgs
    /\ total_size = -1 /\ transformations = <<>> /\ pipeline = <<>>
    /\ epoch = -1 /\ force_size = NoCap /\ srcLen = 0
    /\ epochLog = <<>> /\ closeLog = <<>> /\ closeCalls = 0
    /\ iters = 0 /\ started = 0 /\ gen = NoGen
    /\ runs = 0 /\ pulled = 0 /\ yielded = <<>>
    /\ cache = NoCache /\ warnOnce = FALSE /\ warnLog = <<>> /\ checkCalls = 0
    /\ sample = <<>> /\ fixed = <<>> /\ NoExt

\* SimpleDataset(shards, cache_dir=..., check_empty=..., force_size=...,
\* transformations=...) over a source of m samples per pass
Construct ==
    /\ pc = "new"
    /\ \E sh \in ShardsArgs, cd \in {NoDir, "/cache"}, ce \in BOOLEAN,
          fs \in {NoCap} \cup 0..MaxK, tr \in TransArgs,
          srcCaps \in Caps, openCaps \in Caps, m \in 0..MaxM :
         LET a == [shards |-> sh, cache_dir |-> cd, check_empty |-> ce,
                   force_size |-> fs, transformations |-> tr]
             r == SimpleDataset_init(a, srcCaps, openCaps)
         IN /\ args' = a
            /\ err' = r.err
            /\ pc' = IF r.err = "none" THEN "ok" ELSE "failed"
            /\ total_size' = r.total_size
            /\ transformations' = r.transformations
            /\ pipeline' = r.pipeline
            /\ epoch' = r.epoch
            /\ force_size' = r.force_size
            /\ srcLen' = IF r.err = "none" THEN m ELSE 0
            /\ epochLog' = [i \in 1..Len(r.pipeline) |-> <<>>]
    /\ lastOp' = "init"
    /\ UNCHANGED << closeLog, closeCalls, genVars, cacheVars, dotVars, extVars >>

\* The dataset has one consumer and no thread of its own: a method is called
\* between two next() calls, not while the generator is running.
Suspended == gen.pc \notin {"run", "for"}

\* iter(dataset): __iter__ is a generator function, the call only makes the
\* generator object
IterCall ==
    /\ pc = "ok" /\ Suspended /\ iters < MaxIters
    /\ iters' = iters + 1
    /\ gen' = [pc |-> "created", count |-> 0, pos |-> 0]
    /\ runs' = 0 /\ pulled' = 0 /\ yielded' = <<>>
    /\ lastOp' = "iter" /\ err' = "none"
    /\ UNCHANGED << pc, args, total_size, transformations, pipeline, epoch,
                    force_size, srcLen, epochLog, closeLog, closeCalls,
                    started, cacheVars, dotVars, extVars >>

\* the first next(): lines 184-188
GenStart ==
    /\ gen.pc = "created"
    /\ epoch' = epoch + 1
    /\ epochLog' = set_pipeline_epochs(pipeline, epoch + 1, epochLog)
    /\ started' = started + 1
    /\ gen' = [pc |-> "run", count |-> 0, pos |-> 0]
    /\ lastOp' = "next" /\ err' = "none"
    /\ UNCHANGED << pc, args, total_size, transformations, pipeline,
                    force_size, srcLen, closeLog, closeCalls,
                    iters, runs, pulled, yielded, cacheVars, dotVars, extVars >>

\* run_pipeline with the epoch counted per pass
RunPipelineEpoch ==
    /\ gen.pc = "run"
    /\ runs' = IF runs < MaxRuns THEN runs + 1 ELSE runs
    /\ gen' = [gen EXCEPT !.pc = "for", !.pos = 0]
    /\ epoch' = epoch + 1
    /\ UNCHANGED << pc, err, lastOp, args, total_size, transformations, pipeline,
                    force_size, srcLen, epochLog, closeLog, closeCalls,
                    iters, started, pulled, yielded, cacheVars, dotVars, extVars >>

\* run_pipeline(self.pipeline) of line 190 or 198: a new pass from the top;
\* runs counts the passes up to MaxRuns and stays there, the generator goes on
RunPipeline ==
    /\ gen.pc = "run"
    /\ runs' = IF runs < MaxRuns THEN runs + 1 ELSE runs
    /\ gen' = [gen EXCEPT !.pc = "for", !.pos = 0]
    /\ UNCHANGED << dsVars, iters, started, pulled, yielded, cacheVars, dotVars, extVars >>

\* the test of line 191
CapReachedLate(count, cap) == cap # NoCap /\ count > cap

CapReached(count, cap) == cap # NoCap /\ count >= cap

\* where the generator goes when a pass is exhausted: the while True of
\* line 189 starts another pass, the for of line 198 falls off the end
AfterPassAlways(cap) == "run"

AfterPass(cap) == IF cap # NoCap THEN "run" ELSE "done"

\* the list lines 194 and 200 pass to apply_transformations: the attribute
\* is read at each sample
CtorTransformations == args.transformations.items

LiveTransformations == transformations

\* one turn of the for loop of line 190 or 198
ForStep ==
    /\ gen.pc = "for"
    /\ IF gen.pos < srcLen
       THEN /\ pulled' = pulled + 1
            /\ IF CapReached(gen.count, force_size)
               THEN /\ gen' = [gen EXCEPT !.pc = "done", !.pos = @ + 1]
                    /\ UNCHANGED yielded
               ELSE /\ gen' = [gen EXCEPT !.pc = "yield", !.pos = @ + 1]
                    /\ yielded' = Append(yielded,
                          apply_transformations(LiveTransformations,
                              [d |-> fix_dots(RawSample(gen.pos + 1)),
                               by |-> <<>>, seen |-> <<>>]))
       ELSE /\ gen' = [gen EXCEPT !.pc = AfterPass(force_size)]
            /\ UNCHANGED << pulled, yielded >>
    /\ UNCHANGED << dsVars, iters, started, runs, cacheVars, dotVars, extVars >>

\* next() on a generator suspended at a yield: line 196, then the loop
Resume ==
    /\ gen.pc = "yield"
    /\ gen' = [gen EXCEPT !.pc = "for",
                          !.count = IF force_size # NoCap THEN @ + 1 ELSE @]
    /\ lastOp' = "next" /\ err' = "none"
    /\ UNCHANGED << pc, args, total_size, transformations, pipeline, epoch,
                    force_size, srcLen, epochLog, closeLog, closeCalls,
                    iters, started, runs, pulled, yielded, cacheVars, dotVars, extVars >>

\* the stages close() calls close on, last stage first
RECURSIVE ClosedStages(_, _)
ClosedStages(p, i) ==
    IF i = 0 THEN <<>>
    ELSE (IF p[i].close THEN << i >> ELSE <<>>) \o ClosedStages(p, i - 1)

\* the entry of closeLog for self.cache.clear() of line 222
ClearEvent == 0

\* close with `del stage` taking the stage out of the list
CloseDropsStages ==
    /\ pc = "ok" /\ Suspended /\ closeCalls < MaxCloses
    /\ closeCalls' = closeCalls + 1
    /\ closeLog' = closeLog \o ClosedStages(pipeline, Len(pipeline))
                            \o (IF cache.present THEN << ClearEvent >> ELSE <<>>)
    /\ pipeline' = <<>>
    /\ IF cache.present
       THEN /\ cache' = [cache EXCEPT !.cleared = TRUE]
            /\ err' = "none"
       ELSE /\ err' = "AttributeError"
            /\ UNCHANGED cache
    /\ lastOp' = "close"
    /\ UNCHANGED << pc, args, total_size, transformations, epoch,
                    force_size, srcLen, epochLog, genVars,
                    warnOnce, warnLog, checkCalls, dotVars, extVars >>

\* SimpleDataset.close: self.cache is read after the loop
Close ==
    /\ pc = "ok" /\ Suspended /\ closeCalls < MaxCloses
    /\ closeCalls' = closeCalls + 1
    /\ closeLog' = closeLog \o ClosedStages(pipeline, Len(pipeline))
                            \o (IF cache.present THEN << ClearEvent >> ELSE <<>>)
    /\ IF cache.present
       THEN /\ cache' = [cache EXCEPT !.cleared = TRUE]
            /\ err' = "none"
       ELSE /\ err' = "AttributeError"
            /\ UNCHANGED cache
    /\ lastOp' = "close"
    /\ UNCHANGED << pc, args, total_size, transformations, pipeline, epoch,
                    force_size, srcLen, epochLog, genVars,
                    warnOnce, warnLog, checkCalls, dotVars, extVars >>

Next ==
    \/ Construct
    \/ IterCall
    \/ GenStart
    \/ RunPipeline
    \/ ForStep
    \/ Resume
    \/ Close

Spec == Init /\ [][Next]_vars

\* a consumer that keeps calling next() on the generator it holds: every
\* step of the generator that can be taken is taken
NextPull ==
    \/ Construct
    \/ IterCall
    \/ GenStart
    \/ RunPipeline
    \/ ForStep
    \/ Resume

SpecPull ==
    /\ Init /\ [][NextPull]_vars
    /\ WF_vars(GenStart) /\ WF_vars(RunPipeline)
    /\ WF_vars(ForStep) /\ WF_vars(Resume)

\* ------------------------------------------------- fix_dots on any sample
Chars == {"_", ".", "a"}
Values == {1, 2}
AllKeys == UNION { [1..n -> Chars] : n \in 0..MaxKeyLen }

\* the dicts of at most MaxKeys items: the keys of a dict are distinct
Samples ==
    { d \in UNION { [1..n -> [k : AllKeys, v : Values]] : n \in 0..MaxKeys } :
        \A i, j \in 1..Len(d) : d[i].k = d[j].k => i = j }

InitDots ==
    /\ pc = "new" /\ err = "none" /\ lastOp = "init" /\ args = NoArgs
    /\ total_size = -1 /\ transformations = <<>> /\ pipeline = <<>>
    /\ epoch = -1 /\ force_size = NoCap /\ srcLen = 0
    /\ epochLog = <<>> /\ closeLog = <<>> /\ closeCalls = 0
    /\ iters = 0 /\ started = 0 /\ gen = NoGen
    /\ runs = 0 /\ pulled = 0 /\ yielded = <<>>
    /\ cache = NoCache /\ warnOnce = FALSE /\ warnLog = <<>> /\ checkCalls = 0
    /\ sample \in Samples /\ fixed = <<>> /\ NoExt

\* fix_dots(sample), on the dict the previous call left
FixDots ==
    /\ Len(fixed) < MaxApply
    /\ fixed' = Append(fixed,
                       fix_dots(IF fixed = <<>> THEN sample ELSE fixed[Len(fixed)]))
    /\ UNCHANGED << dsVars, genVars, cacheVars, sample, extVars >>

NextDots == FixDots

SpecDots == InitDots /\ [][NextDots]_vars

\* ------------------------------------------- a dataset with a cache object
\* No method of the class binds self.cache; get_stats and close read it.
\* Here the caller has bound it to an object with the counters and the
\* clear operation of the cache collaborator.
InitCache ==
    LET a == [NoArgs EXCEPT !.shards = [type |-> "list", json |-> FALSE]]
        c == [set_epoch |-> FALSE, close |-> TRUE]
        r == SimpleDataset_init(a, c, c)
    IN /\ pc = "ok" /\ err = "none" /\ lastOp = "init" /\ args = a
       /\ total_size = r.total_size /\ transformations = r.transformations
       /\ pipeline = r.pipeline /\ epoch = r.epoch /\ force_size = r.force_size
       /\ srcLen = 0
       /\ epochLog = [i \in 1..Len(r.pipeline) |-> <<>>]
       /\ closeLog = <<>> /\ closeCalls = 0
       /\ iters = 0 /\ started = 0 /\ gen = NoGen
       /\ runs = 0 /\ pulled = 0 /\ yielded = <<>>
       /\ cache = [present |-> TRUE, accesses |-> 0, misses |-> 0, cleared |-> FALSE]
       /\ warnOnce = FALSE /\ warnLog = <<>> /\ checkCalls = 0
       /\ sample = <<>> /\ fixed = <<>> /\ NoExt

\* the cache serves one shard: a hit or a miss
CacheAccess ==
    /\ cache.present /\ cache.accesses < MaxAccesses
    /\ \E miss \in {0, 1} :
         cache' = [cache EXCEPT !.accesses = @ + 1, !.misses = @ + miss]
    /\ UNCHANGED << dsVars, genVars, warnOnce, warnLog, checkCalls, dotVars, extVars >>

\* SimpleDataset.get_stats: [err, accesses, misses]
get_stats(c) ==
    IF c.present THEN [err |-> "none", accesses |-> c.accesses, misses |-> c.misses]
    ELSE [err |-> "AttributeError", accesses |-> 0, misses |-> 0]

GetStats ==
    /\ pc = "ok" /\ Suspended
    /\ err' = get_stats(cache).err
    /\ lastOp' = "get_stats"
    /\ UNCHANGED << pc, args, total_size, transformations, pipeline, epoch,
                    force_size, srcLen, epochLog, closeLog, closeCalls,
                    genVars, cacheVars, dotVars, extVars >>

\* the test of line 173; for counters this small the float quotient
\* misses / accesses compares with 0.3 as the exact fraction does
TooManyMisses(accesses, misses) ==
    accesses > MinAccesses /\ MissDen * misses > MissNum * accesses

\* SimpleDataset.check_cache_misses, without the assignment of line 175
CheckCacheMissesNoLatch ==
    /\ pc = "ok" /\ Suspended /\ checkCalls < MaxChecks
    /\ checkCalls' = checkCalls + 1
    /\ lastOp' = "check_cache_misses"
    /\ IF warnOnce
       THEN err' = "none" /\ UNCHANGED << warnOnce, warnLog >>
       ELSE LET st == get_stats(cache)
            IN /\ err' = st.err
               /\ IF st.err = "none" /\ TooManyMisses(st.accesses, st.misses)
                  THEN /\ UNCHANGED warnOnce
                       /\ warnLog' = Append(warnLog, checkCalls + 1)
                  ELSE UNCHANGED << warnOnce, warnLog >>
    /\ UNCHANGED << pc, args, total_size, transformations, pipeline, epoch,
                    force_size, srcLen, epochLog, closeLog, closeCalls,
                    genVars, cache, dotVars, extVars >>

\* dataset.check_cache_misses(): the method, or the lambda that line 175
\* put in its place
CheckCacheMisses ==
    /\ pc = "ok" /\ Suspended /\ checkCalls < MaxChecks
    /\ checkCalls' = checkCalls + 1
    /\ lastOp' = "check_cache_misses"
    /\ IF warnOnce
       THEN err' = "none" /\ UNCHANGED << warnOnce, warnLog >>
       ELSE LET st == get_stats(cache)
            IN /\ err' = st.err
               /\ IF st.err = "none" /\ TooManyMisses(st.accesses, st.misses)
                  THEN /\ warnOnce' = TRUE
                       /\ warnLog' = Append(warnLog, checkCalls + 1)
                  ELSE UNCHANGED << warnOnce, warnLog >>
    /\ UNCHANGED << pc, args, total_size, transformations, pipeline, epoch,
                    force_size, srcLen, epochLog, closeLog, closeCalls,
                    genVars, cache, dotVars, extVars >>

NextCache ==
    \/ CacheAccess
    \/ GetStats
    \/ CheckCacheMisses
    \/ Close

SpecCache == InitCache /\ [][NextCache]_vars

\* ------------------------------------- a dataset and every method of it
\* The datasets __init__ returns for a list of shards, no cache directory
\* and no empty check; self.cache is not bound.
InitOps ==
    \E fs \in {NoCap} \cup 0..MaxOpsK, m \in 0..MaxOpsM,
       srcCaps \in { c \in Caps : c.set_epoch /\ c.close },
       tr \in { t \in TransArgs : t.isList /\ t.items = <<"t1">> } :
      LET a == [NoArgs EXCEPT !.shards = [type |-> "list", json |-> FALSE],
                              !.force_size = fs, !.transformations = tr]
          r == SimpleDataset_init(a, srcCaps, [set_epoch |-> FALSE, close |-> TRUE])
      IN /\ pc = "ok" /\ err = r.err /\ lastOp = "init" /\ args = a
         /\ total_size = r.total_size /\ transformations = r.transformations
         /\ pipeline = r.pipeline /\ epoch = r.epoch /\ force_size = r.force_size
         /\ srcLen = m
         /\ epochLog = [i \in 1..Len(r.pipeline) |-> <<>>]
         /\ closeLog = <<>> /\ closeCalls = 0
         /\ iters = 0 /\ started = 0 /\ gen = NoGen
         /\ runs = 0 /\ pulled = 0 /\ yielded = <<>>
         /\ cache = NoCache /\ warnOnce = FALSE /\ warnLog = <<>> /\ checkCalls = 0
         /\ sample = <<>> /\ fixed = <<>> /\ NoExt

\* SimpleDataset.add_transform: appends to the list the generator reads
AddTransform ==
    /\ pc = "ok" /\ Suspended /\ Len(addLog) < MaxAdds
    /\ \E t \in {"t2"} :
         /\ transformations' = Append(transformations, t)
         /\ addLog' = Append(addLog, [t |-> t, iter |-> iters, n |-> Len(yielded)])
    /\ lastOp' = "add_transform" /\ err' = "none"
    /\ UNCHANGED << pc, args, total_size, pipeline, epoch, force_size, srcLen,
                    epochLog, closeLog, closeCalls, genVars, cacheVars, dotVars,
                    heap, targ, tref >>

\* SimpleDataset.set_size
SetSize ==
    /\ pc = "ok" /\ Suspended
    /\ \E n \in 0..MaxSize : total_size' = n
    /\ lastOp' = "set_size" /\ err' = "none"
    /\ UNCHANGED << pc, args, transformations, pipeline, epoch, force_size,
                    srcLen, epochLog, closeLog, closeCalls, genVars, cacheVars,
                    dotVars, extVars >>

\* SimpleDataset.size: returns self.total_size
Size ==
    /\ pc = "ok" /\ Suspended
    /\ lastOp' = "size" /\ err' = "none"
    /\ UNCHANGED << pc, args, total_size, transformations, pipeline, epoch,
                    force_size, srcLen, epochLog, closeLog, closeCalls, genVars,
                    cacheVars, dotVars, extVars >>

NextOps ==
    \/ IterCall
    \/ GenStart
    \/ RunPipeline
    \/ ForStep
    \/ Resume
    \/ AddTransform
    \/ SetSize
    \/ Size
    \/ GetStats
    \/ CheckCacheMisses
    \/ Close

SpecOps == InitOps /\ [][NextOps]_vars

\* ------------------------------------- list objects shared by datasets
\* heap[1] is the list the def statement made for the default of
\* transformations (line 106), heap[2] a list of the caller; a dataset is
\* built with one or the other as its transformations argument.

\* interpret_transformations returning the list it was given
interpret_alias(h, a) == [heap |-> h, ref |-> a]

\* interpret_transformations on a list object: result = [] is a new list
\* (line 75), the elements are appended to it and it is what is returned
interpret_alloc(h, a) == [heap |-> Append(h, h[a]), ref |-> Len(h) + 1]

InitShare ==
    /\ pc = "new" /\ err = "none" /\ lastOp = "init" /\ args = NoArgs
    /\ total_size = -1 /\ transformations = <<>> /\ pipeline = <<>>
    /\ epoch = -1 /\ force_size = NoCap /\ srcLen = 0
    /\ epochLog = <<>> /\ closeLog = <<>> /\ closeCalls = 0
    /\ iters = 0 /\ started = 0 /\ gen = NoGen
    /\ runs = 0 /\ pulled = 0 /\ yielded = <<>>
    /\ cache = NoCache /\ warnOnce = FALSE /\ warnLog = <<>> /\ checkCalls = 0
    /\ sample = <<>> /\ fixed = <<>>
    /\ addLog = <<>> /\ targ = <<>> /\ tref = <<>>
    /\ \E l \in UNION { [1..n -> {"t1", "t2"}] : n \in 0..MaxTransArg } :
         heap = << <<>>, l >>

\* SimpleDataset(shards) or SimpleDataset(shards, transformations=l):
\* line 120 binds self.transformations
ConstructShared ==
    /\ Len(tref) < MaxDatasets
    /\ \E a \in {1, 2} :
         LET r == interpret_alloc(heap, a)
         IN /\ heap' = r.heap
            /\ tref' = Append(tref, r.ref)
            /\ targ' = Append(targ, a)
    /\ UNCHANGED << dsVars, genVars, cacheVars, dotVars, addLog >>

\* add_transform on one of the datasets
AddTransformShared ==
    /\ \E k \in 1..Len(tref), t \in {"t1", "t2"} :
         /\ Len(heap[tref[k]]) < MaxTransArg + MaxAdds
         /\ heap' = [heap EXCEPT ![tref[k]] = Append(@, t)]
    /\ UNCHANGED << dsVars, genVars, cacheVars, dotVars, addLog, targ, tref >>

NextShare ==
    \/ ConstructShared
    \/ AddTransformShared

SpecShare == InitShare /\ [][NextShare]_vars

\* ------------------------------------------------------------------ claims
Capped == pc = "ok" /\ force_size # NoCap

Ceil(a, b) == (a + b - 1) \div b

TransOK(tr) == interpret_transformations(tr).err = "none"

\* C1: a size-capped iteration over a source of M < K samples per pass never
\* yields more than K samples, and when it has returned it has yielded
\* exactly K.
C1_YieldsExactlyK ==
    (Capped /\ srcLen < force_size) =>
        /\ Len(yielded) <= force_size
        /\ gen.pc = "done" => Len(yielded) = force_size

C1_Witness ==
    Capped /\ force_size = 5 /\ srcLen = 2 /\ gen.pc = "done" /\ Len(yielded) = 5

\* C2: when a size-capped iteration over a source of M samples per pass,
\* 0 < M < K, has returned, run_pipeline has been invoked exactly
\* ceil(K / M) times.
C2_CeilRuns ==
    (Capped /\ 0 < srcLen /\ srcLen < force_size /\ gen.pc = "done") =>
        runs = Ceil(force_size, srcLen)

\* C3: an uncapped iteration never invokes run_pipeline a second time, and
\* when it has returned it has run the pipeline once and yielded the samples
\* of that one pass.
C3_UncappedOnce ==
    (pc = "ok" /\ force_size = NoCap) =>
        /\ runs <= 1
        /\ gen.pc = "done" => (runs = 1 /\ Len(yielded) = srcLen)

C3_Witness ==
    pc = "ok" /\ force_size = NoCap /\ srcLen = 2 /\ gen.pc = "done"
    /\ runs = 1 /\ Len(yielded) = 2

\* C4: after N >= 1 iteration starts every stage that has set_epoch was last
\* called with N - 1, and a stage without set_epoch was never called.
C4_EpochPropagation ==
    started >= 1 =>
        \A i \in 1..Len(pipeline) :
            IF pipeline[i].set_epoch
            THEN Len(epochLog[i]) = started
                 /\ epochLog[i][Len(epochLog[i])] = started - 1
            ELSE epochLog[i] = <<>>

C4_Witness ==
    /\ started = 2
    /\ pipeline[1].set_epoch /\ pipeline[3].set_epoch /\ ~pipeline[2].set_epoch
    /\ epochLog[1] = <<0, 1>> /\ epochLog[3] = <<0, 1>> /\ epochLog[2] = <<>>

\* C5: close() on a dataset built without a cache directory and never
\* iterated raises nothing.
C5_CloseFresh ==
    (lastOp = "close" /\ iters = 0 /\ args.cache_dir = NoDir) => err = "none"

\* C6: construction with shards given as a str or as a list succeeds, and the
\* first stage is the shard list built from that argument.
C6_StrOrList ==
    (pc # "new" /\ args.shards.type \in {"str", "list"}
       /\ TransOK(args.transformations)
       /\ args.cache_dir = NoDir /\ ~args.check_empty) =>
        /\ pc = "ok"
        /\ pipeline[1].name = "SimpleShardList"
        /\ pipeline[1].shards = args.shards

\* C7: construction with shards that is neither a str nor a list (and
\* transformations that pass line 78) raises ValueError from __init__, with
\* no pipeline built and no iteration begun.
C7_UnknownShards ==
    (pc # "new" /\ args.shards.type \notin {"str", "list"}
       /\ TransOK(args.transformations)) =>
        /\ pc = "failed" /\ err = "ValueError"
        /\ pipeline = <<>> /\ iters = 0 /\ started = 0

C7_Witness ==
    pc = "failed" /\ err = "ValueError" /\ args.shards.type = "int"
    /\ args.cache_dir # NoDir /\ pipeline = <<>>

AsMap(d) == { d[i] : i \in 1..Len(d) }

KeySet(d) == { d[i].k : i \in 1..Len(d) }

Reserved(k) == StartsWith(k, <<"_", "_">>) \/ StartsWith(k, <<".">>)

Dotted(k) == <<".">> \o k

\* C8: for a sample with no key starting with "__" or ".", fix_dots maps
\* "." + k to the value k had, for every key k, holds no other key and has
\* as many keys as the sample had.
C8_PrefixesEveryKey ==
    (fixed # <<>> /\ \A i \in 1..Len(sample) : ~Reserved(sample[i].k)) =>
        /\ AsMap(fixed[1]) =
              { [k |-> Dotted(sample[i].k), v |-> sample[i].v] : i \in 1..Len(sample) }
        /\ Len(fixed[1]) = Len(sample)

C8_Witness ==
    /\ Len(sample) = 2
    /\ sample[1].k = <<"_">> /\ sample[2].k = <<"a", ".">>
    /\ sample[1].v # sample[2].v
    /\ fixed # <<>>
    /\ KeySet(fixed[1]) = { <<".", "_">>, <<".", "a", ".">> }

\* C9: on any sample a second fix_dots changes nothing, and the keys after
\* the first are the reserved keys as they were and "." + k for the others.
C9_Idempotent ==
    Len(fixed) >= 2 =>
        /\ fixed[2] = fixed[1]
        /\ KeySet(fixed[1]) =
              { IF Reserved(sample[i].k) THEN sample[i].k ELSE Dotted(sample[i].k) :
                  i \in 1..Len(sample) }

C9_Witness ==
    /\ Len(fixed) = 2
    /\ KeySet(sample) = { <<"a">>, <<".", "a">> }
    /\ fixed[2] = fixed[1]
    /\ KeySet(fixed[2]) = { <<".", "a">> }

C14_PulledIsYielded ==
    (Capped /\ gen.pc \in {"yield", "done"}) => pulled = Len(yielded)

\* C17: the i-th value yielded is the sample at the i-th place of the
\* passes laid end to end, with its keys normalised before any
\* transformation saw it, and with the transformations applied in list order.
C17_Order ==
    \A i \in 1..Len(yielded) :
        LET p == ((i - 1) % srcLen) + 1
            normal == << <<"_", "_">>, <<".", "a">> >>
        IN /\ Len(yielded[i].d) = 2
           /\ yielded[i].d[1] = [k |-> normal[1], v |-> p]
           /\ yielded[i].d[2] = [k |-> normal[2], v |-> p + 10]
           /\ Len(yielded[i].by) = Len(transformations)
           /\ \A j \in 1..Len(transformations) :
                /\ yielded[i].by[j] = transformations[j]
                /\ yielded[i].seen[j][1] = normal[1]
                /\ yielded[i].seen[j][2] = normal[2]

C17_Witness ==
    /\ Capped /\ srcLen = 2 /\ Len(yielded) = 3
    /\ transformations = <<"t2", "t1">>
    /\ yielded[3].by = <<"t2", "t1">>
    /\ yielded[2].d[1].v = 2 /\ yielded[3].d[1].v = 1

\* C19: fix_dots keeps every value of the sample bound to some key, and
\* keeps the number of items.
C19_NoValueLost ==
    fixed # <<>> =>
        /\ \A i \in 1..Len(sample) :
              \E j \in 1..Len(fixed[1]) : fixed[1][j].v = sample[i].v
        /\ Len(fixed[1]) = Len(sample)

\* C15: a size-capped iteration whose consumer keeps pulling reaches the
\* end of the generator, whatever the cap and the length of a pass.
C15_Stops == (Capped /\ gen.pc # "none") ~> (gen.pc = "done")

\* C18: one close() calls close once on every stage that has it, last stage
\* first, on no other stage, and clears the cache after all of them.
C18_CloseOrder ==
    (pc = "ok" /\ closeCalls = 1) =>
        LET n == Len(closeLog)
        IN /\ n >= 1 /\ closeLog[n] = ClearEvent
           /\ \A i \in 1..Len(pipeline) :
                Cardinality({ j \in 1..(n - 1) : closeLog[j] = i }) =
                    (IF pipeline[i].close THEN 1 ELSE 0)
           /\ \A j, k \in 1..(n - 1) : j < k => closeLog[j] > closeLog[k]

\* the callables added before the i-th value of the live generator was
\* yielded: in an earlier iteration, or in this one after fewer than i yields
RECURSIVE AddedBefore(_, _)
AddedBefore(log, i) ==
    IF log = <<>> THEN <<>>
    ELSE (IF Head(log).iter < iters \/ Head(log).n < i
          THEN << Head(log).t >> ELSE <<>>) \o AddedBefore(Tail(log), i)

\* C11: every value yielded has been through the transformations given at
\* construction followed by exactly the ones add_transform had appended
\* before that value was yielded.
C11_LiveTransforms ==
    \A i \in 1..Len(yielded) :
        yielded[i].by = args.transformations.items \o AddedBefore(addLog, i)

C11_Witness ==
    /\ iters = 1 /\ Len(yielded) = 2
    /\ addLog = << [t |-> "t2", iter |-> 1, n |-> 1] >>
    /\ yielded[1].by = <<"t1">> /\ yielded[2].by = <<"t1", "t2">>

\* C13: the epoch counter starts at -1 and a step adds one to it when it
\* starts an iteration and leaves it unchanged otherwise: a pipeline restart
\* and a call of any other method do not change it.
C13_EpochCounter ==
    /\ epoch = -1
    /\ [][/\ epoch' >= epoch
          /\ epoch' = (IF started' = started + 1 THEN epoch + 1 ELSE epoch)
          /\ runs' # runs => epoch' = epoch
          /\ lastOp' \in {"add_transform", "size", "set_size", "get_stats",
                          "check_cache_misses", "close", "iter"} => epoch' = epoch
         ]_vars

C13_Witness ==
    /\ started = 2 /\ epoch = 1 /\ runs = 2 /\ gen.pc = "done"
    /\ Len(addLog) = 1 /\ closeCalls = 1 /\ checkCalls = 1 /\ total_size = 0

\* C16: the pipeline of a dataset is the source, the worker splitter, the
\* opener, the tar expander and the key grouper, then the empty guard when
\* one was asked for, and no step changes it.
C16_PipelineFixed ==
    /\ [](pc = "ok" =>
            [i \in 1..Len(pipeline) |-> pipeline[i].name] =
                <<"SimpleShardList", "split_by_worker", "StreamingOpen",
                  "tar_file_expander", "group_by_keys">>
                \o (IF args.check_empty THEN <<"check_empty">> ELSE <<>>))
    /\ [][pipeline' = pipeline]_vars

C16_Witness ==
    /\ pc = "ok" /\ Len(pipeline) = 5 /\ pipeline[5].name = "group_by_keys"
    /\ closeCalls = 1 /\ closeLog = <<3, 1>> /\ Len(addLog) = 1
    /\ total_size = 0 /\ gen.pc = "done" /\ force_size # NoCap

\* C20: a step that changes a list changes neither the default list nor the
\* caller's list nor any list passed as an argument, and the list it changes
\* is the transformations of one dataset only.
C20_PrivateLists ==
    [][\A id \in 1..Len(heap) :
         heap'[id] # heap[id] =>
            /\ id \notin {1, 2}
            /\ id \notin { targ[k] : k \in 1..Len(targ) }
            /\ Cardinality({ k \in 1..Len(tref) : tref[k] = id }) = 1]_vars

C20_Witness ==
    /\ Len(tref) = 2 /\ targ = <<1, 1>> /\ tref[1] # tref[2]
    /\ heap[1] = <<>>
    /\ heap[tref[1]] = <<"t1">> /\ heap[tref[2]] = <<>>

====
